---- MODULE Spec2Model ----
(***************************************************************************)
(* AEGIS fraud detection server (src/server.js): the risk scoring engine   *)
(* performFraudAnalysis, its helpers, the three in-memory stores and the   *)
(* POST /api/analyze-fraud route that drives them.                         *)
(*                                                                         *)
(* Modelling conventions                                                   *)
(*  - JavaScript values of the oracle reply are tagged records (Num, Str,  *)
(*    Bool, Null, Arr, Obj); an object is a function from property names.  *)
(*  - merchant and location are sequences of one-character strings, so     *)
(*    toLowerCase, includes and the template-literal pattern key are       *)
(*    computed character by character.                                     *)
(*  - instants are integer milliseconds; an ISO timestamp produced by      *)
(*    toISOString() and read back by new Date() keeps the millisecond      *)
(*    value, so a timestamp is stored as that integer.                     *)
(*  - non-integer numbers (amountAnomaly, avgRisk) are exact fractions     *)
(*    [n, d] in lowest terms.                                              *)
(*  - Node.js runs one callback at a time: a request runs synchronously up *)
(*    to `await model.generateContent`, resumes when the oracle settles    *)
(*    and runs to the end of performFraudAnalysis, and the route resumes   *)
(*    after `await performFraudAnalysis` in a later microtask.             *)
(***************************************************************************)
EXTENDS Integers, Sequences, FiniteSets, TLC

\* ------------------------------------------------------------------ bounds
\* number of analyze requests a behaviour issues (request c is the c-th arrival)
MaxCalls == 2
\* number of clock steps a behaviour takes
MaxTicks == 1
\* number of requests a behaviour of DeepSpec issues, one after the other
MaxDeepCalls == 10
\* capacity of the ledger; the program keeps 1000 records (server.js:393-394),
\* the model keeps this many: enough for a history with four places and with
\* more than four requests of one hour, few enough for eviction to happen
\* within MaxDeepCalls requests
LedgerCapacity == 5

\* --------------------------------------------------------------- JS values
Num(n) == [t |-> "number", n |-> n]
Str(s) == [t |-> "string", s |-> s]
Bool(b) == [t |-> "boolean", b |-> b]
Null == [t |-> "null"]
Arr(a) == [t |-> "array", a |-> a]
Obj(f) == [t |-> "object", f |-> f]

\* ---------------------------------------------------------------- fractions
RECURSIVE Gcd(_, _)
Gcd(a, b) == IF b = 0 THEN a ELSE Gcd(b, a % b)

Frac(n, d) == LET g == Gcd(n, d) IN [n |-> n \div g, d |-> d \div g]
FracOfInt(n) == [n |-> n, d |-> 1]
FracLeq(p, q) == p.n * q.d <= q.n * p.d
FracMin(p, q) == IF FracLeq(p, q) THEN p ELSE q
Abs(x) == IF x < 0 THEN -x ELSE x

\* ------------------------------------------------------------------ strings
UpperCase == <<"A", "B", "C", "D", "E", "F", "G", "H", "I", "J", "K", "L", "M",
               "N", "O", "P", "Q", "R", "S", "T", "U", "V", "W", "X", "Y", "Z">>
LowerCase == <<"a", "b", "c", "d", "e", "f", "g", "h", "i", "j", "k", "l", "m",
               "n", "o", "p", "q", "r", "s", "t", "u", "v", "w", "x", "y", "z">>

LowerOf == [ch \in {UpperCase[i] : i \in 1..Len(UpperCase)} |->
               LowerCase[CHOOSE i \in 1..Len(UpperCase) : UpperCase[i] = ch]]

LowerChar(ch) == IF ch \in DOMAIN LowerOf THEN LowerOf[ch] ELSE ch

\* String.prototype.toLowerCase
toLowerCase(s) == [i \in 1..Len(s) |-> LowerChar(s[i])]

\* String.prototype.includes
includes(s, sub) ==
    \E i \in 0..(Len(s) - Len(sub)) : \A j \in 1..Len(sub) : s[i + j] = sub[j]

Digit(k) == <<"0", "1", "2", "3", "4", "5", "6", "7", "8", "9">>[k + 1]

\* decimal rendering of a non-negative integer inside a template literal
RECURSIVE NumToStr(_)
NumToStr(k) == IF k < 10 THEN <<Digit(k)>> ELSE NumToStr(k \div 10) \o <<Digit(k % 10)>>

\* ------------------------------------------------------------------- clock
HourMs == 3600000
\* granularity of the modelled clock
HalfHourMs == HourMs \div 2
\* the process starts at 22:30 local time of day 0
StartTime == 22 * HourMs + HalfHourMs

\* new Date().getHours() at instant ms
getHours(ms) == (ms \div HourMs) % 24

\* ------------------------------------------------------------------ inputs
BestBuy == <<"B", "e", "s", "t", " ", "B", "u", "y">>
CasinoRoyale == <<"C", "a", "s", "i", "n", "o", " ", "R", "o", "y", "a", "l", "e">>
NY == <<"N", "Y">>
LA == <<"L", "A">>

\* request bodies that pass validateTransaction
PurchaseBody == [userId |-> "u01", amount |-> 2500, currency |-> "USD", merchant |-> BestBuy,
                 cardType |-> "credit", location |-> NY]
CasinoBody == [userId |-> "u02", amount |-> 6000, currency |-> "USD", merchant |-> CasinoRoyale,
               cardType |-> "debit", location |-> LA]
RequestBodies == {PurchaseBody, CasinoBody}

UserIds == {b.userId : b \in RequestBodies}

\* Math.random().toString(36).substr(2, 6).toUpperCase() draws
RandomSuffixes == {"AAAAAA"}

SevenFactors == [LocationAnomaly |-> Num(10), AmountDeviation |-> Num(20),
                 MerchantRisk |-> Num(30), TimePattern |-> Num(5), CardUsage |-> Num(15),
                 UserBehavior |-> Num(10), VelocityCheck |-> Num(5)]

\* a reply object in the shape the prompt asks for
Reply(score, status, confidence, factors, alert) ==
    Obj([riskScore |-> Num(score), summary |-> Str("summary"), status |-> Str(status),
         confidence |-> Num(confidence), riskFactors |-> factors,
         recommendations |-> Arr(<<"advice">>), alertLevel |-> Str(alert)])

Without(o, field) == Obj([k \in DOMAIN o.f \ {field} |-> o.f[k]])
With(o, field, v) == Obj((field :> v) @@ o.f)

WellFormed == Reply(70, "Approved", 85, Obj(SevenFactors), "MEDIUM")
PartialFactors == Reply(80, "Flagged", 60, Obj([MerchantRisk |-> Num(40)]), "HIGH")
NullFactors == Reply(90, "Denied", 90, Null, "HIGH")
\* passes isValidAnalysis although it breaks the contract of the prompt
OutOfContract ==
    With(Reply(100, "Denied", 150, Obj([LocationAnomaly |-> Num(150), Extra |-> Num(5)]),
               "CRITICAL"),
         "fallback", Bool(TRUE))

\* replies that isValidAnalysis accepts
AcceptableReplies == {WellFormed, NullFactors, OutOfContract}

ScoreTooHigh == With(WellFormed, "riskScore", Num(101))

\* parsed replies that isValidAnalysis rejects
MalformedReplies ==
    { Null,
      Num(42),
      Without(WellFormed, "riskScore"),
      Without(WellFormed, "summary"),
      Without(WellFormed, "riskFactors"),
      With(WellFormed, "riskScore", Str("70")),
      ScoreTooHigh,
      With(WellFormed, "riskScore", Num(-1)),
      With(WellFormed, "status", Str("Unknown")),
      Without(WellFormed, "status") }

\* what `await model.generateContent` and `response.text()` can deliver: the
\* call rejects, or the text parses to a value (JSON.parse failing on the
\* text is in EveryOutcome and LiveOutcomes)
OracleOutcomes ==
    { [kind |-> "rejected"], [kind |-> "json", value |-> ScoreTooHigh] }
    \cup { [kind |-> "json", value |-> v] : v \in AcceptableReplies }

\* the same with text that does not parse and with every malformed reply
EveryOutcome ==
    OracleOutcomes \cup { [kind |-> "unparseable"] }
    \cup { [kind |-> "json", value |-> v] : v \in MalformedReplies }

\* ----------------------------------------------------------- pure helpers
RECURSIVE SumAmounts(_)
SumAmounts(h) == IF h = <<>> THEN 0 ELSE h[1].amount + SumAmounts(Tail(h))

\* keys of locationCounts in property insertion order
RECURSIVE FirstSeen(_)
FirstSeen(h) ==
    IF h = <<>> THEN <<>>
    ELSE LET rest == FirstSeen(SubSeq(h, 1, Len(h) - 1))
             loc == h[Len(h)].location
         IN IF \E i \in 1..Len(rest) : rest[i] = loc THEN rest ELSE Append(rest, loc)

CountOf(h, loc) == Cardinality({i \in 1..Len(h) : h[i].location = loc})

\* Array.prototype.sort((a, b) => b[1] - a[1]) is stable: insert each entry
\* after every entry whose count is at least its own
RECURSIVE SortByCount(_, _)
SortByCount(keys, h) ==
    IF keys = <<>> THEN <<>>
    ELSE LET sorted == SortByCount(SubSeq(keys, 1, Len(keys) - 1), h)
             k == keys[Len(keys)]
             pos == Cardinality({i \in 1..Len(sorted) : CountOf(h, sorted[i]) >= CountOf(h, k)})
         IN SubSeq(sorted, 1, pos) \o <<k>> \o SubSeq(sorted, pos + 1, Len(sorted))

IsDigit(ch) == \E k \in 0..9 : Digit(k) = ch

DigitValue(ch) == CHOOSE k \in 0..9 : Digit(k) = ch

\* a < b for canonical decimal numerals (no leading zero): the shorter one
\* is smaller, and of two of one length the one with the smaller digit at
\* the first place where they differ
NumeralLess(a, b) ==
    \/ Len(a) < Len(b)
    \/ /\ Len(a) = Len(b)
       /\ \E i \in 1..Len(a) :
             /\ DigitValue(a[i]) < DigitValue(b[i])
             /\ \A j \in 1..(i - 1) : a[j] = b[j]

\* 2^32 - 1, the first integer that is not an array index
FirstNonIndex == <<"4", "2", "9", "4", "9", "6", "7", "2", "9", "5">>

\* a property key that is an array index: the canonical decimal form of an
\* integer from 0 to 2^32 - 2
IsArrayIndex(key) ==
    /\ Len(key) >= 1
    /\ \A i \in 1..Len(key) : IsDigit(key[i])
    /\ Len(key) > 1 => key[1] # "0"
    /\ NumeralLess(key, FirstNonIndex)

\* ascending numeric order of array-index keys
RECURSIVE SortAscending(_)
SortAscending(keys) ==
    IF keys = <<>> THEN <<>>
    ELSE LET sorted == SortAscending(SubSeq(keys, 1, Len(keys) - 1))
             k == keys[Len(keys)]
             pos == Cardinality({i \in 1..Len(sorted) : NumeralLess(sorted[i], k)})
         IN SubSeq(sorted, 1, pos) \o <<k>> \o SubSeq(sorted, pos + 1, Len(sorted))

\* Object.entries(locationCounts) lists the keys that are array indices
\* first, in ascending numeric order, and then the other keys in the order
\* in which they were created
OwnKeys(h) ==
    LET seen == FirstSeen(h)
    IN SortAscending(SelectSeq(seen, IsArrayIndex))
           \o SelectSeq(seen, LAMBDA key : ~IsArrayIndex(key))

getMostCommonLocations(h) ==
    LET sorted == SortByCount(OwnKeys(h), h)
    IN SubSeq(sorted, 1, IF Len(sorted) < 3 THEN Len(sorted) ELSE 3)

SeqContains(s, x) == \E i \in 1..Len(s) : s[i] = x

Casino == <<"c", "a", "s", "i", "n", "o">>
Betting == <<"b", "e", "t", "t", "i", "n", "g">>
Crypto == <<"c", "r", "y", "p", "t", "o">>
Atm == <<"a", "t", "m">>
WireTransfer == <<"w", "i", "r", "e", " ", "t", "r", "a", "n", "s", "f", "e", "r">>

\* calculatePreAnalysisRisk without Math.min around the velocity
calculatePreAnalysisRisk_noVelocityCap(transaction, userHistory, ms) ==
    LET n == Len(userHistory)
        sum == SumAmounts(userHistory)
        deviation50 == Frac(50 * Abs(transaction.amount * n - sum), sum)
        recent == {i \in 1..n : userHistory[i].timestamp > ms - HourMs}
        hour == getHours(ms)
        lowered == toLowerCase(transaction.merchant)
        risky == \E r \in {Casino, Betting, Crypto, Atm, WireTransfer} : includes(lowered, r)
    IN [amountAnomaly |-> IF n > 0 THEN FracMin(deviation50, FracOfInt(100)) ELSE FracOfInt(0),
        locationAnomaly |-> IF n > 0
                            THEN (IF SeqContains(getMostCommonLocations(userHistory),
                                                 transaction.location) THEN 0 ELSE 60)
                            ELSE 0,
        timeAnomaly |-> IF hour < 6 \/ hour > 23 THEN 40 ELSE 0,
        velocityRisk |-> IF n > 0 THEN Cardinality(recent) * 25 ELSE 0,
        merchantRisk |-> IF risky THEN 80 ELSE 20]

calculatePreAnalysisRisk(transaction, userHistory, ms) ==
    LET n == Len(userHistory)
        sum == SumAmounts(userHistory)
        \* |amount - sum/n| / (sum/n) * 50  =  50 * |amount*n - sum| / sum
        deviation50 == Frac(50 * Abs(transaction.amount * n - sum), sum)
        recent == {i \in 1..n : userHistory[i].timestamp > ms - HourMs}
        velocity == IF Cardinality(recent) * 25 < 100 THEN Cardinality(recent) * 25 ELSE 100
        hour == getHours(ms)
        lowered == toLowerCase(transaction.merchant)
        risky == \E r \in {Casino, Betting, Crypto, Atm, WireTransfer} : includes(lowered, r)
    IN [amountAnomaly |-> IF n > 0 THEN FracMin(deviation50, FracOfInt(100)) ELSE FracOfInt(0),
        locationAnomaly |-> IF n > 0
                            THEN (IF SeqContains(getMostCommonLocations(userHistory),
                                                 transaction.location) THEN 0 ELSE 60)
                            ELSE 0,
        timeAnomaly |-> IF hour < 6 \/ hour > 23 THEN 40 ELSE 0,
        velocityRisk |-> IF n > 0 THEN velocity ELSE 0,
        merchantRisk |-> IF risky THEN 80 ELSE 20]

createUserProfile(userId, ms) ==
    [userId |-> userId, riskLevel |-> "LOW", totalTransactions |-> 0,
     suspiciousTransactions |-> 0, recentSuspiciousActivity |-> FALSE,
     createdAt |-> ms, lastUpdated |-> ms]

\* analysis.hasOwnProperty on null raises a TypeError, which the caller's
\* try block catches like any other failure
isValidAnalysisThrows(analysis) == analysis.t = "null"


\* isValidAnalysis without the range check on riskScore
isValidAnalysis_noRange(analysis) ==
    /\ analysis.t = "object"
    /\ {"riskScore", "summary", "status", "riskFactors"} \subseteq DOMAIN analysis.f
    /\ analysis.f.riskScore.t = "number"
    /\ analysis.f.status.t = "string"
    /\ analysis.f.status.s \in {"Approved", "Flagged", "Denied"}

\* isValidAnalysis without the check of status against the allowed values
isValidAnalysis_anyStatus(analysis) ==
    /\ analysis.t = "object"
    /\ {"riskScore", "summary", "status", "riskFactors"} \subseteq DOMAIN analysis.f
    /\ analysis.f.riskScore.t = "number"
    /\ analysis.f.riskScore.n >= 0
    /\ analysis.f.riskScore.n <= 100

isValidAnalysis(analysis) ==
    /\ analysis.t = "object"
    /\ {"riskScore", "summary", "status", "riskFactors"} \subseteq DOMAIN analysis.f
    /\ analysis.f.riskScore.t = "number"
    /\ analysis.f.riskScore.n >= 0
    /\ analysis.f.riskScore.n <= 100
    /\ analysis.f.status.t = "string"
    /\ analysis.f.status.s \in {"Approved", "Flagged", "Denied"}

generateTransactionId(ms, rnd) == [t |-> "string", prefix |-> "TXN-", ms |-> ms, suffix |-> rnd]

defaultRiskFactors ==
    [LocationAnomaly |-> Num(0), AmountDeviation |-> Num(0), MerchantRisk |-> Num(0),
     TimePattern |-> Num(0), CardUsage |-> Num(0), UserBehavior |-> Num(0),
     VelocityCheck |-> Num(0)]

\* { ...defaultRiskFactors, ...analysis.riskFactors }: own properties of the
\* right operand override; spreading null or a number contributes nothing
SpreadOver(defaults, v) == IF v.t = "object" THEN v.f @@ defaults ELSE defaults

enhanceAnalysis(analysis, preAnalysis, ms, rnd) ==
    Obj( [timestamp |-> [t |-> "string", iso |-> ms],
          transactionId |-> generateTransactionId(ms, rnd),
          processingTime |-> [t |-> "number", random |-> rnd],
          version |-> Str("2.1"),
          preAnalysisRisk |-> Obj(preAnalysis),
          riskFactors |-> Obj(SpreadOver(defaultRiskFactors, analysis.f.riskFactors))]
         @@ analysis.f )

riskLevelOf(suspicious, total) ==
    \* suspicious / total > 0.3, > 0.1
    IF 10 * suspicious > 3 * total THEN "HIGH"
    ELSE IF 10 * suspicious > total THEN "MEDIUM"
    ELSE "LOW"


\* updateUserProfile assigning the flag from the current verdict alone
updateUserProfile_notSticky(profiles, userId, analysis, ms) ==
    LET profile == IF userId \in DOMAIN profiles THEN profiles[userId]
                   ELSE createUserProfile(userId, ms)
        total == profile.totalTransactions + 1
        hit == analysis.f.riskScore.n > 70
        suspicious == IF hit THEN profile.suspiciousTransactions + 1
                      ELSE profile.suspiciousTransactions
    IN (userId :> [profile EXCEPT !.totalTransactions = total,
                                  !.lastUpdated = ms,
                                  !.suspiciousTransactions = suspicious,
                                  !.recentSuspiciousActivity = hit,
                                  !.riskLevel = riskLevelOf(suspicious, total)]) @@ profiles

\* updateUserProfile counting a score of exactly 70 as suspicious
updateUserProfile_countsSeventy(profiles, userId, analysis, ms) ==
    LET profile == IF userId \in DOMAIN profiles THEN profiles[userId]
                   ELSE createUserProfile(userId, ms)
        total == profile.totalTransactions + 1
        hit == analysis.f.riskScore.n >= 70
        suspicious == IF hit THEN profile.suspiciousTransactions + 1
                      ELSE profile.suspiciousTransactions
    IN (userId :> [profile EXCEPT !.totalTransactions = total,
                                  !.lastUpdated = ms,
                                  !.suspiciousTransactions = suspicious,
                                  !.recentSuspiciousActivity = IF hit THEN TRUE ELSE @,
                                  !.riskLevel = riskLevelOf(suspicious, total)]) @@ profiles

\* updateUserProfile starting from a fresh profile instead of the stored one
updateUserProfile_fromFreshProfile(profiles, userId, analysis, ms) ==
    LET profile == createUserProfile(userId, ms)
        total == profile.totalTransactions + 1
        hit == analysis.f.riskScore.n > 70
        suspicious == IF hit THEN profile.suspiciousTransactions + 1
                      ELSE profile.suspiciousTransactions
    IN (userId :> [profile EXCEPT !.totalTransactions = total,
                                  !.lastUpdated = ms,
                                  !.suspiciousTransactions = suspicious,
                                  !.recentSuspiciousActivity = IF hit THEN TRUE ELSE @,
                                  !.riskLevel = riskLevelOf(suspicious, total)]) @@ profiles

\* updateUserProfile raising the flag from a riskScore of 70 on
updateUserProfile_flagsFromSeventy(profiles, userId, analysis, ms) ==
    LET profile == IF userId \in DOMAIN profiles THEN profiles[userId]
                   ELSE createUserProfile(userId, ms)
        total == profile.totalTransactions + 1
        hit == analysis.f.riskScore.n > 70
        suspicious == IF hit THEN profile.suspiciousTransactions + 1
                      ELSE profile.suspiciousTransactions
    IN (userId :> [profile EXCEPT !.totalTransactions = total,
                                  !.lastUpdated = ms,
                                  !.suspiciousTransactions = suspicious,
                                  !.recentSuspiciousActivity =
                                      IF analysis.f.riskScore.n >= 70 THEN TRUE ELSE @,
                                  !.riskLevel = riskLevelOf(suspicious, total)]) @@ profiles

updateUserProfile(profiles, userId, analysis, ms) ==
    LET profile == IF userId \in DOMAIN profiles THEN profiles[userId]
                   ELSE createUserProfile(userId, ms)
        total == profile.totalTransactions + 1
        hit == analysis.f.riskScore.n > 70
        suspicious == IF hit THEN profile.suspiciousTransactions + 1
                      ELSE profile.suspiciousTransactions
        updated == [profile EXCEPT !.totalTransactions = total,
                                   !.lastUpdated = ms,
                                   !.suspiciousTransactions = suspicious,
                                   !.recentSuspiciousActivity = IF hit THEN TRUE ELSE @,
                                   !.riskLevel = riskLevelOf(suspicious, total)]
    IN (userId :> updated) @@ profiles

patternKeyOf(transaction) ==
    transaction.merchant \o <<"-">> \o transaction.location \o <<"-">>
        \o NumToStr((transaction.amount \div 100) * 100)


\* updateFraudPatterns recording from a riskScore of 80 on
updateFraudPatterns_fromEighty(patterns, transaction, analysis, ms) ==
    IF analysis.f.riskScore.n >= 80
    THEN LET patternKey == patternKeyOf(transaction)
             existingPattern == IF patternKey \in DOMAIN patterns THEN patterns[patternKey]
                                ELSE [count |-> 0, avgRisk |-> FracOfInt(0)]
             avg == existingPattern.avgRisk
         IN (patternKey :> [count |-> existingPattern.count + 1,
                            avgRisk |-> Frac(avg.n + analysis.f.riskScore.n * avg.d, 2 * avg.d),
                            lastSeen |-> ms])
            @@ patterns
    ELSE patterns

updateFraudPatterns(patterns, transaction, analysis, ms) ==
    IF analysis.f.riskScore.n > 80
    THEN LET patternKey == patternKeyOf(transaction)
             existingPattern == IF patternKey \in DOMAIN patterns THEN patterns[patternKey]
                                ELSE [count |-> 0, avgRisk |-> FracOfInt(0)]
             avg == existingPattern.avgRisk
         IN (patternKey :> [count |-> existingPattern.count + 1,
                            avgRisk |-> Frac(avg.n + analysis.f.riskScore.n * avg.d, 2 * avg.d),
                            lastSeen |-> ms])
            @@ patterns
    ELSE patterns


\* the verdict object of the rule engine for a given sum of points
FallbackVerdict(transaction, riskScore, offHours) ==
    LET status == IF riskScore > 70 THEN "Denied"
                  ELSE IF riskScore > 40 THEN "Flagged" ELSE "Approved"
    IN Obj([riskScore |-> Num(IF riskScore < 100 THEN riskScore ELSE 100),
            summary |-> [t |-> "string", s |-> "Fallback analysis: ", status |-> status],
            status |-> Str(status),
            confidence |-> Num(75),
            riskFactors |-> Obj([LocationAnomaly |-> Num(25),
                                 AmountDeviation |-> Num(IF transaction.amount > 1000 THEN 60 ELSE 20),
                                 MerchantRisk |-> Num(30),
                                 TimePattern |-> Num(IF offHours THEN 70 ELSE 10),
                                 CardUsage |-> Num(20),
                                 UserBehavior |-> Num(25),
                                 VelocityCheck |-> Num(15)]),
            recommendations |-> Arr(<<"Manual review recommended", "Verify user identity">>),
            alertLevel |-> Str(IF riskScore > 70 THEN "HIGH"
                               ELSE IF riskScore > 40 THEN "MEDIUM" ELSE "LOW"),
            fallback |-> Bool(TRUE)])

RiskyForRules(transaction) ==
    LET lowered == toLowerCase(transaction.merchant)
    IN \E r \in {Casino, Betting, Crypto} : includes(lowered, r)

\* generateFallbackAnalysis counting 22:00 to 22:59 as off-hours
generateFallbackAnalysis_lateFromTen(transaction, ms) ==
    LET offHours == getHours(ms) < 6 \/ getHours(ms) >= 22
    IN FallbackVerdict(transaction,
                       20 + (IF transaction.amount > 5000 THEN 30
                             ELSE IF transaction.amount > 1000 THEN 15 ELSE 0)
                          + (IF offHours THEN 20 ELSE 0)
                          + (IF RiskyForRules(transaction) THEN 40 ELSE 0),
                       offHours)

\* generateFallbackAnalysis with the middle amount step at 2500
generateFallbackAnalysis_midStepAt2500(transaction, ms) ==
    LET offHours == getHours(ms) < 6 \/ getHours(ms) > 22
    IN FallbackVerdict(transaction,
                       20 + (IF transaction.amount > 5000 THEN 30
                             ELSE IF transaction.amount > 2500 THEN 15 ELSE 0)
                          + (IF offHours THEN 20 ELSE 0)
                          + (IF RiskyForRules(transaction) THEN 40 ELSE 0),
                       offHours)

\* generateFallbackAnalysis adding points for a debit card
generateFallbackAnalysis_usesCardType(transaction, ms) ==
    LET offHours == getHours(ms) < 6 \/ getHours(ms) > 22
    IN FallbackVerdict(transaction,
                       20 + (IF transaction.amount > 5000 THEN 30
                             ELSE IF transaction.amount > 1000 THEN 15 ELSE 0)
                          + (IF offHours THEN 20 ELSE 0)
                          + (IF RiskyForRules(transaction) THEN 40 ELSE 0)
                          + (IF transaction.cardType = "debit" THEN 10 ELSE 0),
                       offHours)

generateFallbackAnalysis(transaction, ms) ==
    LET hour == getHours(ms)
        offHours == hour < 6 \/ hour > 22
        lowered == toLowerCase(transaction.merchant)
        risky == \E r \in {Casino, Betting, Crypto} : includes(lowered, r)
        riskScore == 20
                     + (IF transaction.amount > 5000 THEN 30
                        ELSE IF transaction.amount > 1000 THEN 15 ELSE 0)
                     + (IF offHours THEN 20 ELSE 0)
                     + (IF risky THEN 40 ELSE 0)
        status == IF riskScore > 70 THEN "Denied"
                  ELSE IF riskScore > 40 THEN "Flagged" ELSE "Approved"
    IN Obj([riskScore |-> Num(IF riskScore < 100 THEN riskScore ELSE 100),
            summary |-> [t |-> "string", s |-> "Fallback analysis: ", status |-> status],
            status |-> Str(status),
            confidence |-> Num(75),
            riskFactors |-> Obj([LocationAnomaly |-> Num(25),
                                 AmountDeviation |-> Num(IF transaction.amount > 1000 THEN 60 ELSE 20),
                                 MerchantRisk |-> Num(30),
                                 TimePattern |-> Num(IF offHours THEN 70 ELSE 10),
                                 CardUsage |-> Num(20),
                                 UserBehavior |-> Num(25),
                                 VelocityCheck |-> Num(15)]),
            recommendations |-> Arr(<<"Manual review recommended", "Verify user identity">>),
            alertLevel |-> Str(IF riskScore > 70 THEN "HIGH"
                               ELSE IF riskScore > 40 THEN "MEDIUM" ELSE "LOW"),
            fallback |-> Bool(TRUE)])


\* a catch block that logs and rethrows
catchBlock_rethrows(transactionData, ms) == [kind |-> "throw"]

\* the catch block of performFraudAnalysis: the failure is logged and the
\* rule-based verdict is returned to the route
catchBlock(transactionData, ms) ==
    [kind |-> "return", analysis |-> generateFallbackAnalysis(transactionData, ms)]


\* slice(0, n): keeps the oldest n
sliceLast_keepsOldest(h, n) == IF Len(h) > n THEN SubSeq(h, 1, n) ELSE h

\* Array.prototype.slice(-n)
sliceLast(h, n) == IF Len(h) > n THEN SubSeq(h, Len(h) - n + 1, Len(h)) ELSE h

\* transactionHistory.push({...transactionData, analysis}) and the trim
storeTransaction(history, transactionData, analysis) ==
    LET pushed == Append(history, [analysis |-> analysis] @@ transactionData)
    IN IF Len(pushed) > LedgerCapacity THEN sliceLast(pushed, LedgerCapacity) ELSE pushed

\* ------------------------------------------------------------------- state
VARIABLES
    transactionHistory,  \* the ledger: array of {...transactionData, analysis}
    fraudPatterns,       \* Map patternKey -> {count, avgRisk, lastSeen}
    userRiskProfiles,    \* Map userId -> profile
    now,                 \* Date.now()
    calls                \* per request: its position, the locals it holds
                         \* across the await, and the response it was given

vars == <<transactionHistory, fraudPatterns, userRiskProfiles, now, calls>>

Calls == DOMAIN calls

InitWith(n) ==
    /\ transactionHistory = <<>>
    /\ fraudPatterns = <<>>
    /\ userRiskProfiles = <<>>
    /\ now = StartTime
    /\ calls = [c \in 1..n |-> [pc |-> "Idle"]]

Init == InitWith(MaxCalls)

\* the clock advances between callbacks
Tick ==
    /\ now + HalfHourMs <= StartTime + MaxTicks * HalfHourMs
    /\ now' = now + HalfHourMs
    /\ UNCHANGED <<transactionHistory, fraudPatterns, userRiskProfiles, calls>>

\* POST /api/analyze-fraud up to the first await: the route stamps the
\* request, performFraudAnalysis reads history and profile, computes the
\* pre-analysis and sends the prompt
Receive(c, body) ==
    /\ calls[c].pc = "Idle"
    /\ \A b \in Calls : b < c => calls[b].pc # "Idle"
    /\ LET transactionData == [timestamp |-> now] @@ body
           userHistory == SelectSeq(transactionHistory,
                                    LAMBDA t : t.userId = transactionData.userId)
           preAnalysis == calculatePreAnalysisRisk(transactionData, userHistory, now)
       IN /\ userRiskProfiles' =
                IF transactionData.userId \in DOMAIN userRiskProfiles THEN userRiskProfiles
                ELSE (transactionData.userId :> createUserProfile(transactionData.userId, now))
                     @@ userRiskProfiles
          /\ calls' = [calls EXCEPT ![c] = [pc |-> "OracleAttempted",
                                            transactionData |-> transactionData,
                                            preAnalysis |-> preAnalysis]]
    /\ UNCHANGED <<transactionHistory, fraudPatterns, now>>

\* performFraudAnalysis from its resumption after the oracle call to its
\* return: the stores after it and what it hands to the route
performFraudAnalysis(c, outcome, rnd) ==
    LET transactionData == calls[c].transactionData
        accepted == /\ outcome.kind = "json"
                    /\ ~isValidAnalysisThrows(outcome.value)
                    /\ isValidAnalysis(outcome.value)
        enhancedAnalysis == enhanceAnalysis(outcome.value, calls[c].preAnalysis, now, rnd)
    IN IF accepted
       THEN [branch |-> "try",
             result |-> [kind |-> "return", analysis |-> enhancedAnalysis],
             profiles |-> updateUserProfile(userRiskProfiles, transactionData.userId,
                                            enhancedAnalysis, now),
             patterns |-> updateFraudPatterns(fraudPatterns, transactionData,
                                              enhancedAnalysis, now)]
       ELSE [branch |-> "catch",
             result |-> catchBlock(transactionData, now),
             profiles |-> userRiskProfiles,
             patterns |-> fraudPatterns]

\* the oracle call settles: performFraudAnalysis runs to its end and the
\* route, resumed in the same microtask drain, stores the transaction and
\* answers 200, or answers 500 from its own catch
OracleSettled(c, outcome, rnd) ==
    /\ calls[c].pc = "OracleAttempted"
    /\ LET done == performFraudAnalysis(c, outcome, rnd)
       IN /\ userRiskProfiles' = done.profiles
          /\ fraudPatterns' = done.patterns
          /\ IF done.result.kind = "return"
             THEN /\ transactionHistory' = storeTransaction(transactionHistory,
                                                            calls[c].transactionData,
                                                            done.result.analysis)
                  /\ calls' = [calls EXCEPT ![c] =
                                  [pc |-> "Returned", branch |-> done.branch,
                                   analysis |-> done.result.analysis] @@ calls[c]]
             ELSE /\ calls' = [calls EXCEPT ![c] =
                                  [pc |-> "Failed", branch |-> done.branch] @@ calls[c]]
                  /\ UNCHANGED transactionHistory
    /\ UNCHANGED now

Next ==
    \/ Tick
    \/ \E c \in Calls, body \in RequestBodies : Receive(c, body)
    \/ \E c \in Calls, outcome \in OracleOutcomes, rnd \in RandomSuffixes : OracleSettled(c, outcome, rnd)

Spec == Init /\ [][Next]_vars

\* ------------------------------------------------- progress of one request
\* one of each way the oracle call can end
LiveOutcomes ==
    { [kind |-> "rejected"], [kind |-> "unparseable"],
      [kind |-> "json", value |-> Null],
      [kind |-> "json", value |-> ScoreTooHigh],
      [kind |-> "json", value |-> WellFormed] }

LiveSettled(c) == \E outcome \in LiveOutcomes, rnd \in RandomSuffixes : OracleSettled(c, outcome, rnd)

LiveNext ==
    \/ Tick
    \/ \E c \in Calls : Receive(c, PurchaseBody)
    \/ \E c \in Calls : LiveSettled(c)

\* the oracle call settles (it completes or fails), and the callback then runs
LiveSpec == Init /\ [][LiveNext]_vars /\ \A c \in 1..MaxCalls : WF_vars(LiveSettled(c))

\* ------------------------------------- long runs of one user, one at a time
DeepOutcomes == { [kind |-> "json", value |-> WellFormed],
                  [kind |-> "json", value |-> PartialFactors] }

NoneInFlight == \A c \in Calls : calls[c].pc # "OracleAttempted"

DeepNext ==
    \/ \E c \in Calls : NoneInFlight /\ Receive(c, PurchaseBody)
    \/ \E c \in Calls, outcome \in DeepOutcomes, rnd \in RandomSuffixes : OracleSettled(c, outcome, rnd)

DeepSpec == InitWith(MaxDeepCalls) /\ [][DeepNext]_vars

\* ------------------------- requests at any hour of the day, one at a time
\* number of requests a behaviour of DaySpec issues, one after the other
MaxDayCalls == 2

Hours == 0..23

CryptoHub == <<"C", "r", "y", "p", "t", "o", " ", "H", "u", "b">>
BETTING == <<"B", "E", "T", "T", "I", "N", "G">>
ATM == <<"A", "T", "M">>
Cafe == <<"C", "a", "f", "e">>

\* PurchaseBody from another user, place and card
TwinBody == [userId |-> "u02", amount |-> 2500, currency |-> "USD", merchant |-> BestBuy,
             cardType |-> "debit", location |-> LA]

\* amounts on and around the steps of the rule engine, merchants on and off
\* its list, in upper and lower case
DayBodies ==
    { PurchaseBody, CasinoBody, TwinBody,
      [PurchaseBody EXCEPT !.amount = 1000, !.merchant = CryptoHub],
      [PurchaseBody EXCEPT !.amount = 5000, !.merchant = BETTING],
      [PurchaseBody EXCEPT !.amount = 5001, !.merchant = ATM],
      [PurchaseBody EXCEPT !.amount = 100, !.merchant = Cafe] }

\* the oracle call fails, or its reply is accepted and recorded
DayOutcomes == { [kind |-> "rejected"], [kind |-> "unparseable"],
                 [kind |-> "json", value |-> NullFactors] }

\* the process may be serving at any hour
DayInit ==
    /\ transactionHistory = <<>>
    /\ fraudPatterns = <<>>
    /\ userRiskProfiles = <<>>
    /\ now \in {h * HourMs : h \in Hours}
    /\ calls = [c \in 1..MaxDayCalls |-> [pc |-> "Idle"]]

DayNext ==
    \/ \E c \in Calls, body \in DayBodies : NoneInFlight /\ Receive(c, body)
    \/ \E c \in Calls, outcome \in DayOutcomes, rnd \in RandomSuffixes : OracleSettled(c, outcome, rnd)

DaySpec == DayInit /\ [][DayNext]_vars

\* ------------------------------------------- more than one draw of the id
\* Math.random() can give any suffix, and the same one again
IdSuffixes == {"AAAAAA", "BBBBBB"}

IdOutcomes == { [kind |-> "rejected"], [kind |-> "json", value |-> WellFormed] }

IdNext ==
    \/ Tick
    \/ \E c \in Calls : Receive(c, PurchaseBody)
    \/ \E c \in Calls, outcome \in IdOutcomes, rnd \in IdSuffixes : OracleSettled(c, outcome, rnd)

IdSpec == Init /\ [][IdNext]_vars

\* ------------------- requests in flight together, verdicts on both sides
\* ------------------- of the recording threshold
\* the oracle call fails, or its reply is accepted with a riskScore of 70 or 90
RaceOutcomes == { [kind |-> "rejected"],
                  [kind |-> "json", value |-> WellFormed],
                  [kind |-> "json", value |-> NullFactors] }

RaceNext ==
    \/ Tick
    \/ \E c \in Calls, body \in RequestBodies : Receive(c, body)
    \/ \E c \in Calls, outcome \in RaceOutcomes, rnd \in RandomSuffixes : OracleSettled(c, outcome, rnd)

RaceSpec == Init /\ [][RaceNext]_vars

\* ------------------------------------------------------------ read routes
\* Array.prototype.slice(start) for an integer start
sliceFrom(h, start) ==
    LET len == Len(h)
        from == IF start < 0 THEN (IF len + start > 0 THEN len + start ELSE 0)
                ELSE (IF start < len THEN start ELSE len)
    IN SubSeq(h, from + 1, len)

reverse(h) == [i \in 1..Len(h) |-> h[Len(h) + 1 - i]]

\* what the dashboard row of a ledger record shows; a property the verdict
\* does not have reads as undefined
dashboardRow(t) ==
    [id |-> IF "transactionId" \in DOMAIN t.analysis.f THEN t.analysis.f.transactionId
            ELSE [t |-> "undefined"],
     amount |-> t.amount, currency |-> t.currency, merchant |-> t.merchant,
     location |-> t.location, status |-> t.analysis.f.status,
     riskScore |-> t.analysis.f.riskScore, timestamp |-> t.timestamp]

\* GET /api/recent-transactions?limit=<limit>: -limit of 0 is -0, and
\* slice(-0) starts at index 0
recentTransactions(limit) ==
    LET picked == reverse(sliceFrom(transactionHistory, 0 - limit))
    IN [i \in 1..Len(picked) |-> dashboardRow(picked[i])]

\* the recent-transactions route calling reverse() on the ledger itself:
\* Array.prototype.reverse works in place
recentRoute_reversesInPlace(history, limit) ==
    [history |-> reverse(history),
     response |-> [status |-> 200,
                   transactions |-> [i \in 1..Len(history) |-> dashboardRow(reverse(history)[i])]]]

\* GET /api/recent-transactions: the ledger after it and its answer; slice
\* copies, so reverse and map work on the copy
recentRoute(history, limit) ==
    LET picked == reverse(sliceFrom(history, 0 - limit))
    IN [history |-> history,
        response |-> [status |-> 200,
                      transactions |-> [i \in 1..Len(picked) |-> dashboardRow(picked[i])]]]

\* the profile route creating the profile it does not find
profileRoute_createsProfile(profiles, userId, ms) ==
    LET after == IF userId \in DOMAIN profiles THEN profiles
                 ELSE (userId :> createUserProfile(userId, ms)) @@ profiles
    IN [profiles |-> after, response |-> [status |-> 200, profile |-> after[userId]]]

\* GET /api/user/:userId/profile: the profiles after it and its answer
profileRoute(profiles, userId, ms) ==
    [profiles |-> profiles,
     response |-> IF userId \in DOMAIN profiles
                  THEN [status |-> 200, profile |-> profiles[userId]]
                  ELSE [status |-> 404, error |-> "User profile not found"]]

\* limit of the history route when the query names none
DefaultHistoryLimit == 50

\* Array.prototype.slice(start, end) for 0 <= start <= end
sliceBetween(h, start, end) ==
    SubSeq(h, start + 1, IF end < Len(h) THEN end ELSE Len(h))

\* GET /api/user/:userId/history without limit and offset in the query
historyRoute(history, userId) ==
    LET mine == SelectSeq(history, LAMBDA t : t.userId = userId)
    IN [status |-> 200,
        transactions |-> sliceBetween(mine, 0, 0 + DefaultHistoryLimit),
        total |-> Len(mine)]

RECURSIVE SumScores(_)
SumScores(h) == IF h = <<>> THEN 0 ELSE h[1].analysis.f.riskScore.n + SumScores(Tail(h))

CountStatus(history, status) ==
    Cardinality({i \in 1..Len(history) : history[i].analysis.f.status = Str(status)})

\* GET /api/stats
statsRoute(history, patterns, profiles) ==
    [status |-> 200,
     stats |-> [totalTransactions |-> Len(history),
                approvedTransactions |-> CountStatus(history, "Approved"),
                flaggedTransactions |-> CountStatus(history, "Flagged"),
                deniedTransactions |-> CountStatus(history, "Denied"),
                averageRiskScore |-> IF Len(history) > 0
                                     THEN Frac(SumScores(history), Len(history))
                                     ELSE FracOfInt(0),
                uniqueUsers |-> Cardinality({history[i].userId : i \in 1..Len(history)}),
                fraudPatternsDetected |-> Cardinality(DOMAIN patterns),
                highRiskUsers |-> Cardinality({u \in DOMAIN profiles :
                                                  profiles[u].riskLevel = "HIGH"})]]

\* a read request is answered in the callback that receives it
ReadArrives(c) ==
    /\ calls[c].pc = "Idle"
    /\ \A b \in Calls : b < c => calls[b].pc # "Idle"

GetProfile(c, userId) ==
    /\ ReadArrives(c)
    /\ LET out == profileRoute(userRiskProfiles, userId, now)
       IN /\ userRiskProfiles' = out.profiles
          /\ calls' = [calls EXCEPT ![c] = [pc |-> "Answered", route |-> "profile",
                                            userId |-> userId, response |-> out.response]]
    /\ UNCHANGED <<transactionHistory, fraudPatterns, now>>

GetHistory(c, userId) ==
    /\ ReadArrives(c)
    /\ calls' = [calls EXCEPT ![c] = [pc |-> "Answered", route |-> "history",
                                      userId |-> userId,
                                      response |-> historyRoute(transactionHistory, userId)]]
    /\ UNCHANGED <<transactionHistory, fraudPatterns, userRiskProfiles, now>>

GetStats(c) ==
    /\ ReadArrives(c)
    /\ calls' = [calls EXCEPT ![c] = [pc |-> "Answered", route |-> "stats",
                                      response |-> statsRoute(transactionHistory, fraudPatterns,
                                                              userRiskProfiles)]]
    /\ UNCHANGED <<transactionHistory, fraudPatterns, userRiskProfiles, now>>

GetRecent(c, limit) ==
    /\ ReadArrives(c)
    /\ LET out == recentRoute(transactionHistory, limit)
       IN /\ transactionHistory' = out.history
          /\ calls' = [calls EXCEPT ![c] = [pc |-> "Answered", route |-> "recent",
                                            limit |-> limit, response |-> out.response]]
    /\ UNCHANGED <<fraudPatterns, userRiskProfiles, now>>

\* ------------------------------------- analyze and read requests together
\* number of requests, analyze or read, a behaviour of ReadSpec issues
MaxReadCalls == 3

UnknownStatus == With(WellFormed, "status", Str("Unknown"))

\* a reply with a status outside the three allowed ones, and an accepted one
ReadOutcomes == { [kind |-> "json", value |-> UnknownStatus],
                  [kind |-> "json", value |-> NullFactors] }

\* users asked about: one that sends transactions and one that never does
ReadUserIds == {"u01", "u03"}

ReadLimits == {0, 2}

ReadNext ==
    \/ \E c \in Calls, body \in RequestBodies : Receive(c, body)
    \/ \E c \in Calls, outcome \in ReadOutcomes, rnd \in RandomSuffixes : OracleSettled(c, outcome, rnd)
    \/ \E c \in Calls, userId \in ReadUserIds : GetProfile(c, userId)
    \/ \E c \in Calls, userId \in ReadUserIds : GetHistory(c, userId)
    \/ \E c \in Calls : GetStats(c)
    \/ \E c \in Calls, limit \in ReadLimits : GetRecent(c, limit)

ReadSpec == InitWith(MaxReadCalls) /\ [][ReadNext]_vars

\* --------------------------- one user moving between places, one at a time
\* number of requests a behaviour of LocSpec issues, one after the other
MaxLocCalls == 5

Zip10 == <<"1", "0">>
Zip20 == <<"2", "0">>

\* places named by letters and places named by digits
LocLocations == {NY, LA, Zip10, Zip20}

LocNext ==
    \/ \E c \in Calls, loc \in LocLocations :
          NoneInFlight /\ Receive(c, [PurchaseBody EXCEPT !.location = loc])
    \/ \E c \in Calls, rnd \in RandomSuffixes :
          OracleSettled(c, [kind |-> "json", value |-> WellFormed], rnd)

LocSpec == InitWith(MaxLocCalls) /\ [][LocNext]_vars

\* ------------------------------ merchants and places with a hyphen in them
WalMart == <<"W", "a", "l", "-", "M", "a", "r", "t">>
Wal == <<"W", "a", "l">>
MartNY == <<"M", "a", "r", "t", "-", "N", "Y">>

\* a purchase at "Wal-Mart" in "NY", one at "Wal" in "Mart-NY", and two more
\* at "Wal-Mart" in "NY", in the same hundred and in the next one
KeyBodies ==
    { [PurchaseBody EXCEPT !.merchant = WalMart],
      [PurchaseBody EXCEPT !.merchant = Wal, !.location = MartNY],
      [PurchaseBody EXCEPT !.merchant = WalMart, !.amount = 2550],
      [PurchaseBody EXCEPT !.merchant = WalMart, !.amount = 2600] }

KeyOutcomes == { [kind |-> "rejected"], [kind |-> "json", value |-> NullFactors] }

KeyNext ==
    \/ \E c \in Calls, body \in KeyBodies : Receive(c, body)
    \/ \E c \in Calls, outcome \in KeyOutcomes, rnd \in RandomSuffixes : OracleSettled(c, outcome, rnd)

KeySpec == Init /\ [][KeyNext]_vars

\* -------------------------- one user sending many requests around midnight
\* number of requests a behaviour of VelSpec issues, one after the other
MaxVelCalls == 6
\* number of half hours the clock of VelSpec advances, from 23:00 to midnight
MaxVelTicks == 2

VelStartTime == 23 * HourMs

\* a large purchase at a cash machine and a small one elsewhere
VelBodies ==
    { [PurchaseBody EXCEPT !.merchant = ATM],
      [PurchaseBody EXCEPT !.amount = 100, !.location = LA] }

\* half an hour passes while no request is being served
HalfHourPasses ==
    /\ NoneInFlight
    /\ now + HalfHourMs <= VelStartTime + MaxVelTicks * HalfHourMs
    /\ now' = now + HalfHourMs
    /\ UNCHANGED <<transactionHistory, fraudPatterns, userRiskProfiles, calls>>

VelInit ==
    /\ transactionHistory = <<>>
    /\ fraudPatterns = <<>>
    /\ userRiskProfiles = <<>>
    /\ now = VelStartTime
    /\ calls = [c \in 1..MaxVelCalls |-> [pc |-> "Idle"]]

VelNext ==
    \/ HalfHourPasses
    \/ \E c \in Calls, body \in VelBodies : NoneInFlight /\ Receive(c, body)
    \/ \E c \in Calls, rnd \in RandomSuffixes :
          OracleSettled(c, [kind |-> "json", value |-> WellFormed], rnd)

VelSpec == VelInit /\ [][VelNext]_vars

\* --------------------------------------------------------------- observers
Returned(c) == calls[c].pc = "Returned"
ReturnedCalls == {c \in Calls : Returned(c)}
\* requests whose verdict went through updateUserProfile / updateFraudPatterns
RecordedCalls == {c \in ReturnedCalls : calls[c].branch = "try"}
ScoreOf(c) == calls[c].analysis.f.riskScore.n
UserOf(c) == calls[c].transactionData.userId
KeyOf(c) == patternKeyOf(calls[c].transactionData)
\* the step in which request c gets its answer
Settles(c) == calls[c].pc = "OracleAttempted" /\ calls'[c].pc # "OracleAttempted"
InRange(v) == v.t = "number" /\ v.n >= 0 /\ v.n <= 100
FactorNames == {"LocationAnomaly", "AmountDeviation", "MerchantRisk", "TimePattern",
                "CardUsage", "UserBehavior", "VelocityCheck"}
Min(a, b) == IF a < b THEN a ELSE b

\* ------------------------------------------------------------------ claims

\* C1: every analyze call of a structurally valid transaction returns a
\* verdict and never an error: no request ends in the route's 500 answer,
\* every answer carries a riskScore in [0,100] and an allowed status, and
\* from some point on no request is left waiting for the oracle (a request
\* never goes back to waiting, so each one received has been answered),
\* whether the oracle call succeeds, throws, or replies with something
\* unparseable or invalid.
C1_AnalyzeAlwaysReturns ==
    /\ [](\A c \in Calls : /\ calls[c].pc # "Failed"
                           /\ Returned(c) => isValidAnalysis(calls[c].analysis))
    /\ <>[](\A c \in Calls : calls[c].pc # "OracleAttempted")

\* a request was answered with the rule-based verdict and another with the
\* oracle's
C1_Witness ==
    /\ \E c \in ReturnedCalls : calls[c].branch = "catch"
    /\ \E c \in ReturnedCalls : calls[c].branch = "try"

\* C2: the verdict returned by analyze has riskScore, confidence and each of
\* the seven riskFactors within [0,100], for every oracle reply.
C2_VerdictFieldsInRange ==
    \A c \in ReturnedCalls :
        LET a == calls[c].analysis.f
        IN /\ InRange(a.riskScore)
           /\ "confidence" \in DOMAIN a /\ InRange(a.confidence)
           /\ \A k \in FactorNames : k \in DOMAIN a.riskFactors.f /\ InRange(a.riskFactors.f[k])

\* what C3 requires of a reply before it may be accepted
Acceptable(outcome) ==
    /\ outcome.kind = "json"
    /\ outcome.value.t = "object"
    /\ "riskScore" \in DOMAIN outcome.value.f
    /\ InRange(outcome.value.f.riskScore)
    /\ "status" \in DOMAIN outcome.value.f
    /\ outcome.value.f.status \in {Str("Approved"), Str("Flagged"), Str("Denied")}

\* instants the clock has shown so far
PastInstants == {StartTime + k * HalfHourMs : k \in 0..((now - StartTime) \div HalfHourMs)}

\* C3: whatever way the oracle call of a waiting request ends, a reply that is
\* not parseable, or whose riskScore is missing, not a number or outside
\* [0,100], or whose status is not allowed, and every transport failure, gives
\* exactly the rule-based verdict for the transaction and leaves the stores as
\* they are; and every answered request carries either that verdict or a
\* riskScore in [0,100] with an allowed status.
C3_RejectedReplyDiscarded ==
    /\ \A c \in Calls : calls[c].pc = "OracleAttempted" =>
          LET verdict == generateFallbackAnalysis(calls[c].transactionData, now)
          IN \A outcome \in {o \in EveryOutcome : ~Acceptable(o)}, rnd \in RandomSuffixes :
                LET done == performFraudAnalysis(c, outcome, rnd)
                IN /\ done.result = [kind |-> "return", analysis |-> verdict]
                   /\ done.profiles = userRiskProfiles
                   /\ done.patterns = fraudPatterns
    /\ \A c \in ReturnedCalls :
          \/ \E ms \in PastInstants :
                calls[c].analysis = generateFallbackAnalysis(calls[c].transactionData, ms)
          \/ /\ InRange(calls[c].analysis.f.riskScore)
             /\ calls[c].analysis.f.status \in {Str("Approved"), Str("Flagged"), Str("Denied")}

\* a request is waiting for the oracle while another one has been answered
\* with the rule-based verdict
C3_Witness ==
    /\ \E c \in Calls : calls[c].pc = "OracleAttempted"
    /\ \E c \in ReturnedCalls :
          /\ calls[c].branch = "catch"
          /\ \E ms \in PastInstants :
                calls[c].analysis = generateFallbackAnalysis(calls[c].transactionData, ms)

ProfileField(u, field) == IF u \in DOMAIN userRiskProfiles THEN userRiskProfiles[u][field] ELSE 0

\* C4: on both paths the verdict of an answered request has been applied to
\* the stores: the user's totalTransactions counts it (and
\* suspiciousTransactions if riskScore > 70), the pattern cache counts it if
\* riskScore > 80, and the ledger got one record.
C4_VerdictAppliedOnBothPaths ==
    /\ \A u \in UserIds :
          LET done == {c \in ReturnedCalls : UserOf(c) = u}
          IN /\ ProfileField(u, "totalTransactions") = Cardinality(done)
             /\ ProfileField(u, "suspiciousTransactions")
                  = Cardinality({c \in done : ScoreOf(c) > 70})
    /\ \A c \in ReturnedCalls : ScoreOf(c) > 80 => KeyOf(c) \in DOMAIN fraudPatterns
    /\ \A k \in DOMAIN fraudPatterns :
          fraudPatterns[k].count = Cardinality({c \in ReturnedCalls : KeyOf(c) = k /\ ScoreOf(c) > 80})
    /\ Len(transactionHistory) = Min(LedgerCapacity, Cardinality(ReturnedCalls))

\* C5: every returned verdict carries a transactionId, a timestamp, the
\* preAnalysisRisk snapshot and all seven riskFactors, whichever scorer
\* produced it.
C5_VerdictFinalized ==
    \A c \in ReturnedCalls :
        LET a == calls[c].analysis.f
        IN /\ {"transactionId", "timestamp", "preAnalysisRisk", "riskFactors"} \subseteq DOMAIN a
           /\ FactorNames \subseteq DOMAIN a.riskFactors.f

\* C6: for every profile, totalTransactions never decreases,
\* suspiciousTransactions <= totalTransactions, a profile is never removed,
\* and recentSuspiciousActivity stays true once it is true.
C6_ProfileMonotonic ==
    /\ [](\A u \in DOMAIN userRiskProfiles :
             userRiskProfiles[u].suspiciousTransactions <= userRiskProfiles[u].totalTransactions)
    /\ [][\A u \in DOMAIN userRiskProfiles :
             /\ u \in DOMAIN userRiskProfiles'
             /\ userRiskProfiles'[u].totalTransactions >= userRiskProfiles[u].totalTransactions
             /\ userRiskProfiles[u].recentSuspiciousActivity
                   => userRiskProfiles'[u].recentSuspiciousActivity]_vars

\* a profile that was flagged by one verdict and then took a verdict that
\* does not count as suspicious
C6_Witness ==
    \E u \in DOMAIN userRiskProfiles :
        /\ userRiskProfiles[u].recentSuspiciousActivity
        /\ userRiskProfiles[u].suspiciousTransactions = 1
        /\ userRiskProfiles[u].totalTransactions = 2
        /\ \E c \in RecordedCalls : UserOf(c) = u /\ ScoreOf(c) <= 70

\* C7: after any sequence of recorded outcomes for a user,
\* totalTransactions is their number, suspiciousTransactions the number of
\* those with riskScore > 70 (70 itself does not count), and riskLevel is
\* HIGH iff suspicious/total > 0.3, MEDIUM iff it is > 0.1 and <= 0.3, LOW
\* otherwise; 4 of 10 gives HIGH.
C7_ProfileCountsOutcomes ==
    \A u \in DOMAIN userRiskProfiles :
        LET recorded == {c \in RecordedCalls : UserOf(c) = u}
            total == Cardinality(recorded)
            suspicious == Cardinality({c \in recorded : ScoreOf(c) > 70})
            p == userRiskProfiles[u]
        IN /\ p.totalTransactions = total
           /\ p.suspiciousTransactions = suspicious
           /\ total > 0 =>
                 /\ p.riskLevel = "HIGH" <=> 10 * suspicious > 3 * total
                 /\ p.riskLevel = "MEDIUM" <=> (10 * suspicious > total /\ 10 * suspicious <= 3 * total)
                 /\ p.riskLevel = "LOW" <=> 10 * suspicious <= total
           /\ (total = 10 /\ suspicious = 4) => p.riskLevel = "HIGH"

\* ten outcomes recorded for one user, four of them above 70 and at least
\* one of exactly 70
C7_Witness ==
    \E u \in DOMAIN userRiskProfiles :
        /\ userRiskProfiles[u].totalTransactions = 10
        /\ userRiskProfiles[u].suspiciousTransactions = 4
        /\ userRiskProfiles[u].riskLevel = "HIGH"
        /\ \E c \in RecordedCalls : UserOf(c) = u /\ ScoreOf(c) = 70

\* the ledger record of request c
LedgerRecord(c) == [analysis |-> calls[c].analysis] @@ calls[c].transactionData

\* C8: the ledger never holds more than LedgerCapacity records; when
\* requests are answered one after the other, after r appends it holds the
\* min(r, LedgerCapacity) most recent ones in insertion order, the oldest
\* having been evicted first.
C8_LedgerKeepsMostRecent ==
    LET r == Cardinality(ReturnedCalls)
        kept == Min(r, LedgerCapacity)
    IN /\ Len(transactionHistory) <= LedgerCapacity
       /\ ReturnedCalls = 1..r
       /\ transactionHistory = [i \in 1..kept |-> LedgerRecord(r - kept + i)]

\* more appends than the capacity, and the records kept differ from one another
C8_Witness ==
    /\ Cardinality(ReturnedCalls) >= LedgerCapacity + 2
    /\ Len(transactionHistory) = LedgerCapacity
    /\ transactionHistory[1].analysis # transactionHistory[LedgerCapacity].analysis

\* C9: recording a verdict with riskScore > 80 creates the entry of a new
\* key with count = 1 and avgRisk = riskScore, and on a known key adds 1 to
\* count and sets avgRisk to (previous avgRisk + riskScore) / 2.
C9_PatternRecord ==
    [][\A c \in Calls :
          (Settles(c) /\ calls'[c].pc = "Returned" /\ calls'[c].branch = "try"
              /\ calls'[c].analysis.f.riskScore.n > 80) =>
             LET k == KeyOf(c)
                 score == calls'[c].analysis.f.riskScore.n
             IN IF k \notin DOMAIN fraudPatterns
                THEN /\ fraudPatterns'[k].count = 1
                     /\ fraudPatterns'[k].avgRisk = FracOfInt(score)
                ELSE /\ fraudPatterns'[k].count = fraudPatterns[k].count + 1
                     /\ fraudPatterns'[k].avgRisk
                           = Frac(fraudPatterns[k].avgRisk.n + score * fraudPatterns[k].avgRisk.d,
                                  2 * fraudPatterns[k].avgRisk.d)]_vars

\* scores recorded so far for pattern key k
RecordedScores(k) == {ScoreOf(c) : c \in {b \in RecordedCalls : KeyOf(b) = k /\ ScoreOf(b) > 80}}
RecordedCount(k) == Cardinality({b \in RecordedCalls : KeyOf(b) = k /\ ScoreOf(b) > 80})

\* C10: recording 90 and then 100 for one key gives avgRisk = 95 and
\* count = 2; recording 50 after that gives avgRisk = 72.5.
C10_PatternScenario ==
    [][\A c \in Calls :
          (Settles(c) /\ calls'[c].pc = "Returned" /\ calls'[c].branch = "try") =>
             LET k == KeyOf(c)
                 score == calls'[c].analysis.f.riskScore.n
             IN /\ (RecordedCount(k) = 1 /\ RecordedScores(k) = {90} /\ score = 100) =>
                      /\ fraudPatterns'[k].count = 2
                      /\ fraudPatterns'[k].avgRisk = FracOfInt(95)
                /\ (RecordedCount(k) = 2 /\ RecordedScores(k) = {90, 100}
                      /\ fraudPatterns[k].avgRisk = FracOfInt(95) /\ score = 50) =>
                      fraudPatterns'[k].avgRisk = Frac(145, 2)]_vars

\* oracle verdicts at and below the recording threshold
LowScoreReplies == {With(WellFormed, "riskScore", Num(score)) : score \in {0, 70, 80}}

\* instants at which a verdict above 80 was recorded for pattern key k
RecordedInstants(k) ==
    {calls[c].analysis.f.timestamp.iso : c \in {b \in RecordedCalls : KeyOf(b) = k /\ ScoreOf(b) > 80}}

\* C11: recording a verdict with riskScore <= 80, 80 itself included, leaves
\* the pattern cache as it is (same keys, same count, avgRisk and lastSeen of
\* every entry), so that every entry was created by a verdict above 80: its
\* count is the number of verdicts above 80 recorded for its key and its
\* lastSeen is the instant of the latest of them.
C11_NoRecordUpToEighty ==
    /\ \A c \in Calls : calls[c].pc = "OracleAttempted" =>
          \A reply \in LowScoreReplies :
              updateFraudPatterns(fraudPatterns, calls[c].transactionData, reply, now)
                  = fraudPatterns
    /\ \A k \in DOMAIN fraudPatterns :
          /\ RecordedCount(k) >= 1
          /\ fraudPatterns[k].count = RecordedCount(k)
          /\ fraudPatterns[k].lastSeen \in RecordedInstants(k)
          /\ \A ms \in RecordedInstants(k) : ms <= fraudPatterns[k].lastSeen

\* a verdict of at most 80 was recorded for a key after the entry of that key
\* was last written
C11_Witness ==
    \E k \in DOMAIN fraudPatterns, c \in RecordedCalls :
        /\ KeyOf(c) = k
        /\ ScoreOf(c) <= 80
        /\ calls[c].analysis.f.timestamp.iso > fraudPatterns[k].lastSeen

\* requests answered by the rule engine
FallbackCalls == {c \in ReturnedCalls : calls[c].branch = "catch"}

\* the sum of points the rule engine is said to give
ClaimedPoints(amount, merchant, hour) ==
    20 + (IF amount > 5000 THEN 30 ELSE IF amount > 1000 THEN 15 ELSE 0)
       + (IF hour < 6 \/ hour > 22 THEN 20 ELSE 0)
       + (IF \E r \in {Casino, Betting, Crypto} : includes(toLowerCase(merchant), r)
          THEN 40 ELSE 0)

\* C12: for every amount, merchant and hour the fallback verdict has
\* riskScore = min(20 + (30 if amount > 5000, else 15 if amount > 1000)
\* + (20 if hour < 6 or hour > 22) + (40 if the lower-cased merchant contains
\* casino, betting or crypto), 100); status is Denied iff riskScore > 70,
\* Flagged iff 40 < riskScore <= 70, Approved otherwise; alertLevel is HIGH,
\* MEDIUM, LOW on the same thresholds and never CRITICAL; confidence is 75;
\* amount 6000 at "Casino Royale" at hour 2 gives 100, Denied, HIGH.
C12_FallbackFormula ==
    \A c \in FallbackCalls :
        LET td == calls[c].transactionData
            a == calls[c].analysis.f
            hour == getHours(now)
            score == Min(ClaimedPoints(td.amount, td.merchant, hour), 100)
        IN /\ a.riskScore = Num(score)
           /\ a.status = Str("Denied") <=> score > 70
           /\ a.status = Str("Flagged") <=> (score > 40 /\ score <= 70)
           /\ a.status = Str("Approved") <=> score <= 40
           /\ a.alertLevel = Str("HIGH") <=> score > 70
           /\ a.alertLevel = Str("MEDIUM") <=> (score > 40 /\ score <= 70)
           /\ a.alertLevel = Str("LOW") <=> score <= 40
           /\ a.confidence = Num(75)
           /\ (td.amount = 6000 /\ td.merchant = CasinoRoyale /\ hour = 2) =>
                 /\ a.riskScore = Num(100)
                 /\ a.status = Str("Denied")
                 /\ a.alertLevel = Str("HIGH")

\* the casino scenario was answered by the rule engine, and so was a request
\* that stays exactly on a threshold
C12_Witness ==
    /\ getHours(now) = 2
    /\ \E c \in FallbackCalls :
          /\ calls[c].transactionData.amount = 6000
          /\ calls[c].transactionData.merchant = CasinoRoyale
          /\ calls[c].analysis.f.riskScore = Num(100)
    /\ \E c \in FallbackCalls :
          /\ calls[c].analysis.f.riskScore = Num(70)
          /\ calls[c].analysis.f.status = Str("Flagged")

\* requests of the Best Buy scenario: 2500 at "Best Buy" at hour 14, answered
\* by the rule engine, no earlier request of the same user
BestBuyScenario ==
    {c \in FallbackCalls :
        /\ calls[c].transactionData.amount = 2500
        /\ calls[c].transactionData.merchant = BestBuy
        /\ getHours(now) = 14
        /\ \A b \in Calls : b < c => UserOf(b) # UserOf(c)}

\* C13 as stated: with the oracle failing, 2500 at "Best Buy" for a user
\* without history at hour 14 returns riskScore = 20, status Approved and
\* fallback = true.
C13_BestBuyScenarioAsStated ==
    \A c \in BestBuyScenario :
        /\ calls[c].analysis.f.riskScore = Num(20)
        /\ calls[c].analysis.f.status = Str("Approved")
        /\ calls[c].analysis.f.fallback = Bool(TRUE)

\* C13 amended: with the oracle failing, 2500 at "Best Buy" for a user
\* without history at hour 14 returns riskScore = 35 (20 + 15 for an amount
\* above 1000), status Approved and fallback = true.
C13_BestBuyScenario ==
    \A c \in BestBuyScenario :
        /\ calls[c].analysis.f.riskScore = Num(35)
        /\ calls[c].analysis.f.status = Str("Approved")
        /\ calls[c].analysis.f.fallback = Bool(TRUE)

\* the scenario was played for a user whose pre-analysis saw no history
C13_Witness ==
    \E c \in BestBuyScenario :
        /\ calls[c].preAnalysis.velocityRisk = 0
        /\ UserOf(c) \in DOMAIN userRiskProfiles
        /\ userRiskProfiles[UserOf(c)].totalTransactions = 0

\* C14: the rule engine is deterministic and free of side effects: two of
\* its verdicts, given in states with different ledger, profiles and pattern
\* cache and for different users, places and cards, carry the same riskScore
\* and status whenever amount, merchant and current hour agree (within a
\* behaviour of DaySpec the hour is the same for all requests); and the step
\* that answers with its verdict changes no profile and no pattern entry,
\* and no ledger record other than by the route's append and trim.
C14_FallbackDeterministic ==
    /\ [](\A c \in FallbackCalls, d \in FallbackCalls :
             (/\ calls[c].transactionData.amount = calls[d].transactionData.amount
              /\ calls[c].transactionData.merchant = calls[d].transactionData.merchant) =>
                /\ calls[c].analysis.f.riskScore = calls[d].analysis.f.riskScore
                /\ calls[c].analysis.f.status = calls[d].analysis.f.status)
    /\ [][\A c \in Calls :
             (Settles(c) /\ calls'[c].branch = "catch") =>
                LET kept == Len(transactionHistory') - 1
                IN /\ userRiskProfiles' = userRiskProfiles
                   /\ fraudPatterns' = fraudPatterns
                   /\ kept <= Len(transactionHistory)
                   /\ \A i \in 1..kept :
                         transactionHistory'[i]
                             = transactionHistory[Len(transactionHistory) - kept + i]]_vars

\* two requests that agree on amount and merchant only were answered by the
\* rule engine, the second with the first one's record in the ledger
C14_Witness ==
    \E c \in FallbackCalls, d \in FallbackCalls :
        /\ c < d
        /\ calls[c].transactionData.amount = calls[d].transactionData.amount
        /\ calls[c].transactionData.merchant = calls[d].transactionData.merchant
        /\ UserOf(c) # UserOf(d)
        /\ calls[c].transactionData.location # calls[d].transactionData.location
        /\ calls[c].transactionData.cardType # calls[d].transactionData.cardType
        /\ Len(transactionHistory) = 2

\* C15: for every accepted oracle reply, whatever keys its riskFactors map
\* has (none, some of the seven, or unknown ones), the riskFactors of the
\* returned verdict has exactly the seven named keys, supplied values kept,
\* missing ones 0, and no other key.
C15_ExactlySevenFactors ==
    /\ \A c \in RecordedCalls :
          DOMAIN calls[c].analysis.f.riskFactors.f = FactorNames
    /\ \A c \in Calls : calls[c].pc = "OracleAttempted" =>
          \A reply \in AcceptableReplies \cup {PartialFactors}, rnd \in RandomSuffixes :
              LET given == IF reply.f.riskFactors.t = "object" THEN reply.f.riskFactors.f
                           ELSE <<>>
                  out == enhanceAnalysis(reply, calls[c].preAnalysis, now, rnd).f.riskFactors.f
              IN /\ FactorNames \subseteq DOMAIN out
                 /\ \A k \in FactorNames :
                       out[k] = IF k \in DOMAIN given THEN given[k] ELSE Num(0)

\* the transactions of c's user that arrived before c, in arrival order
ArrivedBefore(c) ==
    LET ids == SelectSeq([b \in 1..(c - 1) |-> b], LAMBDA b : UserOf(b) = UserOf(c))
    IN [i \in 1..Len(ids) |-> calls[ids[i]].transactionData]

\* C16: for two requests of one user, A arriving before B, the amount,
\* location and velocity signals of B's pre-analysis are computed over a
\* history that contains A, also when B arrives while A's oracle call is in
\* flight, and never over one that contains B.
C16_PreAnalysisSeesEarlier ==
    \A c \in Calls : calls[c].pc # "Idle" =>
        LET td == calls[c].transactionData
            expected == calculatePreAnalysisRisk(td, ArrivedBefore(c), td.timestamp)
        IN /\ calls[c].preAnalysis.amountAnomaly = expected.amountAnomaly
           /\ calls[c].preAnalysis.locationAnomaly = expected.locationAnomaly
           /\ calls[c].preAnalysis.velocityRisk = expected.velocityRisk

\* C17: under every interleaving of requests, each suspending at the oracle
\* call only, no update is lost: each user's totalTransactions is the number
\* of that user's requests whose verdict was applied to the profile, each
\* pattern entry's count is the number of applied verdicts above 80 for its
\* key (and every such verdict has an entry), and the ledger holds one
\* record per answered request, up to its capacity, each the record of an
\* answered request.
C17_NoLostUpdates ==
    /\ \A u \in DOMAIN userRiskProfiles :
          userRiskProfiles[u].totalTransactions
              = Cardinality({c \in RecordedCalls : UserOf(c) = u})
    /\ \A c \in RecordedCalls : UserOf(c) \in DOMAIN userRiskProfiles
    /\ \A k \in DOMAIN fraudPatterns : fraudPatterns[k].count = RecordedCount(k)
    /\ \A c \in RecordedCalls : ScoreOf(c) > 80 => KeyOf(c) \in DOMAIN fraudPatterns
    /\ Len(transactionHistory) = Min(LedgerCapacity, Cardinality(ReturnedCalls))
    /\ \A i \in 1..Len(transactionHistory) :
          \E c \in ReturnedCalls : transactionHistory[i] = LedgerRecord(c)

\* two requests of one user were in flight together (the second read a
\* history without the first) and both verdicts, above 80, were applied
C17_Witness ==
    /\ ReturnedCalls = Calls
    /\ \E c \in RecordedCalls, d \in RecordedCalls :
          /\ c < d
          /\ UserOf(c) = UserOf(d)
          /\ calls[d].preAnalysis.velocityRisk = 0
          /\ ScoreOf(c) > 80 /\ ScoreOf(d) > 80
          /\ userRiskProfiles[UserOf(c)].totalTransactions = 2
          /\ fraudPatterns[KeyOf(c)].count = 2

\* the transactionId a verdict carries; a verdict without one reads as
\* undefined
IdOf(analysis) ==
    IF "transactionId" \in DOMAIN analysis.f THEN analysis.f.transactionId
    ELSE [t |-> "undefined"]

\* C18: transactionIds are globally unique: no two ledger records and no two
\* verdicts ever returned carry the same transactionId, also when produced
\* within the same clock tick.
C18_TransactionIdsUnique ==
    /\ \A c \in ReturnedCalls, d \in ReturnedCalls :
          c # d => IdOf(calls[c].analysis) # IdOf(calls[d].analysis)
    /\ \A i \in 1..Len(transactionHistory), j \in 1..Len(transactionHistory) :
          i # j => IdOf(transactionHistory[i].analysis) # IdOf(transactionHistory[j].analysis)

\* C19: the fallback flag of a returned verdict is true iff the rule engine
\* substituted for the oracle: every verdict of the rule engine has
\* fallback = true and no verdict built from an accepted reply has, whatever
\* fields the reply has.
C19_FallbackFlagIff ==
    \A c \in ReturnedCalls :
        calls[c].branch = "catch"
            <=> /\ "fallback" \in DOMAIN calls[c].analysis.f
                /\ calls[c].analysis.f.fallback = Bool(TRUE)

\* C20: for every limit >= 0, 0 and limits above the ledger size included,
\* recent(limit) returns exactly min(limit, ledger size) records, the most
\* recently appended ones, newest first.
C20_RecentReturnsNewest ==
    \A limit \in 0..(LedgerCapacity + 1) :
        LET out == recentTransactions(limit)
            n == Min(limit, Len(transactionHistory))
        IN /\ Len(out) = n
           /\ \A i \in 1..n :
                 out[i] = dashboardRow(transactionHistory[Len(transactionHistory) + 1 - i])

\* requests to analyze that have arrived, and requests to read that were answered
AnalyzeCalls == {c \in Calls : calls[c].pc \in {"OracleAttempted", "Returned", "Failed"}}
ReadCalls(route) == {c \in Calls : calls[c].pc = "Answered" /\ calls[c].route = route}

InArrivalOrder(records) ==
    \E f \in [1..Len(records) -> ReturnedCalls] :
        /\ \A i \in 1..Len(records) : records[i] = LedgerRecord(f[i])
        /\ \A i \in 1..Len(records), j \in 1..Len(records) : i < j => f[i] < f[j]

\* C22: ledger records are stored in arrival order: if A is received before
\* B, A's record precedes B's in the ledger, and in historyFor(userId) when
\* both are of that user, also when B's oracle call completes before A's.
C22_LedgerInArrivalOrder ==
    /\ InArrivalOrder(transactionHistory)
    /\ \A u \in UserIds : InArrivalOrder(historyRoute(transactionHistory, u).transactions)

\* the three most frequent locations of a history, equally frequent ones in
\* the order in which the history first shows them
MostFrequentFirstSeen(h) ==
    LET sorted == SortByCount(FirstSeen(h), h)
    IN {sorted[i] : i \in 1..Min(3, Len(sorted))}

\* C23: with a non-empty history locationAnomaly is 0 iff the transaction's
\* location is among the 3 most frequent locations of the user's history,
\* ties in frequency broken by first-seen order, and 60 otherwise; with an
\* empty history it is 0.
C23_LocationAnomaly ==
    \A c \in AnalyzeCalls :
        LET h == ArrivedBefore(c)
            anomaly == calls[c].preAnalysis.locationAnomaly
        IN IF h = <<>> THEN anomaly = 0
           ELSE /\ anomaly \in {0, 60}
                /\ anomaly = 0 <=> calls[c].transactionData.location \in MostFrequentFirstSeen(h)

\* floor(amount / 100) * 100
BucketOf(c) == (calls[c].transactionData.amount \div 100) * 100

\* C24: two recorded transactions are aggregated into the same pattern
\* entry iff they have the same merchant, the same location and the same
\* amount bucket floor(amount/100)*100; distinct (merchant, location, bucket)
\* triples never share a key.
C24_PatternKeyInjective ==
    \A c \in RecordedCalls, d \in RecordedCalls :
        (ScoreOf(c) > 80 /\ ScoreOf(d) > 80) =>
            (KeyOf(c) = KeyOf(d)
                <=> /\ calls[c].transactionData.merchant = calls[d].transactionData.merchant
                    /\ calls[c].transactionData.location = calls[d].transactionData.location
                    /\ BucketOf(c) = BucketOf(d))

\* C25: in every reachable state every pattern entry has count >= 1 and an
\* avgRisk strictly above 80 and at most 100.
C25_PatternAvgRiskRange ==
    \A k \in DOMAIN fraudPatterns :
        /\ fraudPatterns[k].count >= 1
        /\ fraudPatterns[k].avgRisk.n > 80 * fraudPatterns[k].avgRisk.d
        /\ fraudPatterns[k].avgRisk.n <= 100 * fraudPatterns[k].avgRisk.d

StatsNow == statsRoute(transactionHistory, fraudPatterns, userRiskProfiles).stats

\* approved + flagged + denied = total = ledger length <= capacity, and the
\* distinct users are at most total
StatsAddUp(stats, ledgerLength) ==
    /\ stats.approvedTransactions + stats.flaggedTransactions + stats.deniedTransactions
          = stats.totalTransactions
    /\ stats.totalTransactions = ledgerLength
    /\ ledgerLength <= LedgerCapacity
    /\ stats.uniqueUsers <= stats.totalTransactions

OthersKept(u) ==
    \A v \in (DOMAIN userRiskProfiles \cup DOMAIN userRiskProfiles') \ {u} :
        /\ v \in DOMAIN userRiskProfiles
        /\ v \in DOMAIN userRiskProfiles'
        /\ userRiskProfiles'[v] = userRiskProfiles[v]

\* C28: an analyze call for user u leaves the profile of every other user
\* unchanged, both when it is taken up and when it is answered, and the
\* read operations historyFor, profileFor, stats and recent leave profiles,
\* pattern cache and ledger unchanged.
C28_Frame ==
    [][\A c \in Calls :
          /\ (calls[c].pc = "Idle" /\ calls'[c].pc = "OracleAttempted") =>
                OthersKept(calls'[c].transactionData.userId)
          /\ Settles(c) => OthersKept(calls[c].transactionData.userId)
          /\ (calls[c].pc = "Idle" /\ calls'[c].pc = "Answered") =>
                /\ calls'[c].route \in {"history", "profile", "stats", "recent"}
                /\ userRiskProfiles' = userRiskProfiles
                /\ fraudPatterns' = fraudPatterns
                /\ transactionHistory' = transactionHistory]_vars

\* recent was answered from a ledger of two different records, and the
\* verdict of one user was applied while another user has a profile
C28_Witness ==
    /\ \E c \in ReadCalls("recent") :
          /\ Len(calls[c].response.transactions) = 2
          /\ calls[c].response.transactions[1] # calls[c].response.transactions[2]
    /\ \E b \in RecordedCalls, d \in ReturnedCalls : UserOf(b) # UserOf(d)

\* requests whose records the ledger held when request c arrived, where
\* requests come one after the other and every one is recorded
Seen(c) == {b \in Calls : b < c /\ b >= c - LedgerCapacity}

\* those of them stamped within the hour before request c
WithinHour(c) ==
    {b \in Seen(c) :
        calls[b].transactionData.timestamp > calls[c].transactionData.timestamp - HourMs}

WireTransferCo == <<"W", "i", "r", "e", " ", "T", "r", "a", "n", "s", "f", "e", "r", " ", "C", "o">>

\* merchants whose lower-cased name contains casino, betting, crypto, atm or
\* wire transfer, and merchants whose name does not
ListedMerchants == {CasinoRoyale, BETTING, CryptoHub, ATM, WireTransferCo}
UnlistedMerchants == {BestBuy, Cafe}

\* hours on both sides of 6 and of 23
ProbeHours == {0, 5, 6, 12, 23}

ClaimedTimeAnomaly(hour) == IF hour < 6 \/ hour > 23 THEN 40 ELSE 0
ClaimedMerchantRisk(merchant) == IF merchant \in ListedMerchants THEN 80 ELSE 20

SubScoresInRange(pre) ==
    /\ pre.amountAnomaly.n >= 0
    /\ pre.amountAnomaly.n <= 100 * pre.amountAnomaly.d
    /\ \A k \in {"locationAnomaly", "timeAnomaly", "velocityRisk", "merchantRisk"} :
          pre[k] >= 0 /\ pre[k] <= 100

\* timeAnomaly and merchantRisk of a request are as claimed with the history
\* h and with the empty one, the other three are 0 with the empty one
SameWithoutHistory(transaction, h, ms) ==
    LET with == calculatePreAnalysisRisk(transaction, h, ms)
        without == calculatePreAnalysisRisk(transaction, <<>>, ms)
    IN /\ with.timeAnomaly = ClaimedTimeAnomaly(getHours(ms))
       /\ without.timeAnomaly = ClaimedTimeAnomaly(getHours(ms))
       /\ with.merchantRisk = ClaimedMerchantRisk(transaction.merchant)
       /\ without.merchantRisk = ClaimedMerchantRisk(transaction.merchant)
       /\ without.amountAnomaly = FracOfInt(0)
       /\ without.locationAnomaly = 0
       /\ without.velocityRisk = 0
       /\ SubScoresInRange(with)

\* C29: with empty history the pre-analysis has amountAnomaly = 0,
\* locationAnomaly = 0 and velocityRisk = 0; timeAnomaly is 40 iff the
\* current hour is < 6 or > 23, else 0, and merchantRisk is 80 iff the
\* lower-cased merchant contains casino, betting, crypto, atm or wire
\* transfer, else 20, whatever the history; for every history the five
\* sub-scores are in [0,100] and velocityRisk = min(25 x number of history
\* transactions within the trailing hour, 100).
C29_PreAnalysis ==
    /\ \A c \in AnalyzeCalls :
          LET pre == calls[c].preAnalysis
              td == calls[c].transactionData
          IN /\ Seen(c) = {} =>
                   /\ pre.amountAnomaly = FracOfInt(0)
                   /\ pre.locationAnomaly = 0
                   /\ pre.velocityRisk = 0
             /\ pre.timeAnomaly = ClaimedTimeAnomaly(getHours(td.timestamp))
             /\ pre.merchantRisk = ClaimedMerchantRisk(td.merchant)
             /\ SubScoresInRange(pre)
             /\ pre.velocityRisk = Min(25 * Cardinality(WithinHour(c)), 100)
    /\ \A merchant \in ListedMerchants \cup UnlistedMerchants :
          SameWithoutHistory([timestamp |-> now] @@ [PurchaseBody EXCEPT !.merchant = merchant],
                             transactionHistory, now)
    /\ \A hour \in ProbeHours :
          SameWithoutHistory([timestamp |-> hour * HourMs] @@ PurchaseBody,
                             transactionHistory, hour * HourMs)

\* after midnight a request found more than four records of the last hour,
\* all of them of small purchases at another place
C29_Witness ==
    \E c \in AnalyzeCalls :
        /\ Cardinality(WithinHour(c)) > 4
        /\ calls[c].preAnalysis.velocityRisk = 100
        /\ calls[c].preAnalysis.amountAnomaly = FracOfInt(100)
        /\ calls[c].preAnalysis.locationAnomaly = 60
        /\ calls[c].preAnalysis.timeAnomaly = 40
        /\ calls[c].preAnalysis.merchantRisk = 80

====
